---- MODULE Spec2Model ----
(***************************************************************************)
(* Model of the mdbook-rss-feed feed-building pipeline (src/src/lib.rs):   *)
(* parse_markdown_file, collect_articles, the preview helpers and          *)
(* build_feed.                                                             *)
(*                                                                         *)
(* A Rust `str` is a sequence of characters; a character is a one-element  *)
(* TLA+ string, except the two tokens "E2" and "E3", which stand for one   *)
(* Unicode scalar value of two and of three UTF-8 bytes.  Option<T> is the *)
(* empty sequence (None) or a one-element sequence (Some).                 *)
(***************************************************************************)
EXTENDS Integers, Sequences, FiniteSets, TLC

----------------------------------------------------------------------------
(* Option<T> *)

None == <<>>

Some(v) == <<v>>

----------------------------------------------------------------------------
(* str primitives of the Rust standard library, as the code uses them *)

\* char::len_utf8
len_utf8(c) ==
    IF c = "E2" THEN 2 ELSE IF c = "E3" THEN 3 ELSE 1

\* str::len: the length in bytes
byte_len(s) ==
    Len(s) + Cardinality({i \in 1..Len(s) : len_utf8(s[i]) >= 2})
           + Cardinality({i \in 1..Len(s) : len_utf8(s[i]) >= 3})

\* char::is_whitespace
is_whitespace(c) == c \in {" ", "\t", "\n", "\r"}

RECURSIVE trim_start(_)
trim_start(s) ==
    IF s # <<>> /\ is_whitespace(Head(s)) THEN trim_start(Tail(s)) ELSE s

RECURSIVE trim_end(_)
trim_end(s) ==
    IF s # <<>> /\ is_whitespace(s[Len(s)])
    THEN trim_end(SubSeq(s, 1, Len(s) - 1))
    ELSE s

\* str::trim
trim(s) == trim_end(trim_start(s))

\* str::starts_with
starts_with(s, p) == Len(s) >= Len(p) /\ SubSeq(s, 1, Len(p)) = p

\* str::ends_with
ends_with(s, p) ==
    Len(s) >= Len(p) /\ SubSeq(s, Len(s) - Len(p) + 1, Len(s)) = p

\* str::contains for a one-character pattern
contains_char(s, c) == \E i \in 1..Len(s) : s[i] = c

\* str::replace(from, to): every non-overlapping match, left to right
RECURSIVE replace(_, _, _)
replace(s, from, to) ==
    IF s = <<>> THEN <<>>
    ELSE IF starts_with(s, from)
         THEN to \o replace(SubSeq(s, Len(from) + 1, Len(s)), from, to)
         ELSE <<Head(s)>> \o replace(Tail(s), from, to)

\* str::trim_end_matches for a one-character pattern
RECURSIVE trim_end_matches(_, _)
trim_end_matches(s, c) ==
    IF s # <<>> /\ s[Len(s)] = c
    THEN trim_end_matches(SubSeq(s, 1, Len(s) - 1), c)
    ELSE s

\* the position of the first "\n" of s; 0 when there is none
first_newline(s) ==
    IF contains_char(s, "\n")
    THEN CHOOSE i \in 1..Len(s) :
             s[i] = "\n" /\ \A j \in 1..(i - 1) : s[j] # "\n"
    ELSE 0

strip_cr(l) ==
    IF l # <<>> /\ l[Len(l)] = "\r" THEN SubSeq(l, 1, Len(l) - 1) ELSE l

\* str::lines: split at "\n", dropping one "\r" before it; a final line
\* without line ending is kept when it is not empty
RECURSIVE lines(_)
lines(s) ==
    IF s = <<>> THEN <<>>
    ELSE IF first_newline(s) = 0 THEN <<s>>
    ELSE <<strip_cr(SubSeq(s, 1, first_newline(s) - 1))>>
         \o lines(SubSeq(s, first_newline(s) + 1, Len(s)))

\* [&str]::join
RECURSIVE join(_, _)
join(ls, sepr) ==
    IF ls = <<>> THEN <<>>
    ELSE IF Len(ls) = 1 THEN ls[1]
    ELSE ls[1] \o sepr \o join(Tail(ls), sepr)

\* u8/char::to_ascii_lowercase on the letters the model's names use
Upper == <<"A", "D", "E", "I", "K", "M", "N", "O", "R", "S", "U", "W", "Y">>

Lower == <<"a", "d", "e", "i", "k", "m", "n", "o", "r", "s", "u", "w", "y">>

char_to_ascii_lowercase(c) ==
    IF \E k \in 1..Len(Upper) : Upper[k] = c
    THEN Lower[CHOOSE k \in 1..Len(Upper) : Upper[k] = c]
    ELSE c

to_ascii_lowercase(s) == [i \in 1..Len(s) |-> char_to_ascii_lowercase(s[i])]

eq_ignore_ascii_case(a, b) == to_ascii_lowercase(a) = to_ascii_lowercase(b)

----------------------------------------------------------------------------
(* chrono: timestamps and the two date formats deserialize_date accepts.   *)
(* A DateTime<Utc> is the integer Stamp(...), which orders instants as UTC *)
(* does.                                                                   *)

Digits == <<"0", "1", "2", "3", "4", "5", "6", "7", "8", "9">>

is_digit(c) == \E k \in 1..10 : Digits[k] = c

digit_val(c) == (CHOOSE k \in 1..10 : Digits[k] = c) - 1

all_digits(s, from, to) == \A i \in from..to : is_digit(s[i])

RECURSIVE number(_, _, _)
number(s, from, to) ==
    IF from > to THEN 0
    ELSE number(s, from, to - 1) * 10 + digit_val(s[to])

\* seconds since 2000-01-01T00:00:00Z in a calendar of 31-day months
Stamp(y, mo, d, h, mi, sec) ==
    ((((y - 2000) * 12 + (mo - 1)) * 31 + (d - 1)) * 24 + h) * 3600
        + mi * 60 + sec

valid_ymd(s) ==
    /\ all_digits(s, 1, 4) /\ s[5] = "-"
    /\ all_digits(s, 6, 7) /\ s[8] = "-"
    /\ all_digits(s, 9, 10)
    /\ number(s, 6, 7) \in 1..12
    /\ number(s, 9, 10) \in 1..31

\* NaiveDate::parse_from_str(s, "%Y-%m-%d"), then and_hms_opt(0, 0, 0)
parse_ymd(s) ==
    IF Len(s) = 10 /\ valid_ymd(s)
    THEN Some(Stamp(number(s, 1, 4), number(s, 6, 7), number(s, 9, 10), 0, 0, 0))
    ELSE None

\* DateTime::parse_from_rfc3339, for the form YYYY-MM-DDTHH:MM:SSZ
parse_from_rfc3339(s) ==
    IF /\ Len(s) = 20
       /\ valid_ymd(s)
       /\ s[11] = "T" /\ all_digits(s, 12, 13) /\ s[14] = ":"
       /\ all_digits(s, 15, 16) /\ s[17] = ":" /\ all_digits(s, 18, 19)
       /\ s[20] = "Z"
       /\ number(s, 12, 13) \in 0..23
       /\ number(s, 15, 16) \in 0..59
       /\ number(s, 18, 19) \in 0..59
    THEN Some(Stamp(number(s, 1, 4), number(s, 6, 7), number(s, 9, 10),
                    number(s, 12, 13), number(s, 15, 16), number(s, 18, 19)))
    ELSE None

\* deserialize_date: s is the Option<String> the YAML value deserializes to
deserialize_date(s) ==
    IF s = None THEN None
    ELSE IF parse_from_rfc3339(s[1]) # None THEN parse_from_rfc3339(s[1])
    ELSE parse_ymd(s[1])

\* systemtime_to_utc
systemtime_to_utc(st) == st

----------------------------------------------------------------------------
(* serde_yaml::from_str::<FrontMatter>, for a block mapping of scalars:    *)
(* one `key: value` per line.  title is a required String, date is        *)
(* required because of deserialize_with (its value may be null), author   *)
(* and description are optional; unknown keys are ignored, a repeated     *)
(* known key or a line that is no mapping entry is an error.              *)

colon_at(line) ==
    IF contains_char(line, ":")
    THEN CHOOSE i \in 1..Len(line) :
            line[i] = ":" /\ \A j \in 1..(i - 1) : line[j] # ":"
    ELSE 0

is_comment(line) == starts_with(trim_start(line), <<"#">>)

is_entry(line) ==
    /\ colon_at(line) > 1
    /\ (colon_at(line) = Len(line) \/ line[colon_at(line) + 1] = " ")

yaml_key(line) == SubSeq(line, 1, colon_at(line) - 1)

raw_value(line) == trim(SubSeq(line, colon_at(line) + 1, Len(line)))

is_quoted(v) == Len(v) >= 2 /\ v[1] = "\"" /\ v[Len(v)] = "\""

\* the scalar as Option<String>: null is None
yaml_value(line) ==
    LET v == raw_value(line) IN
    IF is_quoted(v) THEN Some(SubSeq(v, 2, Len(v) - 1))
    ELSE IF v = <<>> \/ v = <<"~">> THEN None
    ELSE Some(v)

K_title == <<"t", "i", "t", "l", "e">>

K_date == <<"d", "a", "t", "e">>

K_author == <<"a", "u", "t", "h", "o", "r">>

K_description == <<"d", "e", "s", "c", "r", "i", "p", "t", "i", "o", "n">>

\* Ok(FrontMatter) as Some(record), Err as None
yaml_from_str(yaml) ==
    LET ls == SelectSeq(lines(yaml),
                        LAMBDA l : trim(l) # <<>> /\ ~is_comment(l))
        at(k) == {i \in 1..Len(ls) : yaml_key(ls[i]) = k}
        val(k) == yaml_value(ls[CHOOSE i \in at(k) : TRUE])
    IN
    IF \/ \E i \in 1..Len(ls) : ~is_entry(ls[i])
       \/ \E k \in {K_title, K_date, K_author, K_description} :
              Cardinality(at(k)) > 1
       \/ at(K_title) = {} \/ at(K_date) = {}
    THEN None
    ELSE IF val(K_title) = None THEN None
    ELSE Some([title |-> val(K_title)[1],
               date |-> deserialize_date(val(K_date)),
               author |-> IF at(K_author) = {} THEN None ELSE val(K_author),
               description |->
                   IF at(K_description) = {} THEN None ELSE val(K_description)])

----------------------------------------------------------------------------
(* std::path::Path, for a path given by its components *)

last_dot(name) ==
    IF contains_char(name, ".")
    THEN CHOOSE i \in 1..Len(name) :
            name[i] = "." /\ \A j \in (i + 1)..Len(name) : name[j] # "."
    ELSE 0

\* Path::file_name: the last component
file_name(comps) == comps[Len(comps)]

\* Path::extension
extension(comps) ==
    LET f == file_name(comps) IN
    IF last_dot(f) <= 1 THEN None
    ELSE Some(SubSeq(f, last_dot(f) + 1, Len(f)))

\* Path::file_stem
file_stem(comps) ==
    LET f == file_name(comps) IN
    IF last_dot(f) <= 1 THEN f ELSE SubSeq(f, 1, last_dot(f) - 1)

\* Path::to_string_lossy of the path relative to the root: the components
\* joined by the platform's separator
path_string(comps, sepr) == join(comps, <<sepr>>)

----------------------------------------------------------------------------
(* parse_markdown_file.  A directory entry of the walk is a record         *)
(*   comps    : the path below the root, by components                     *)
(*   is_file  : a regular file (not a directory)                           *)
(*   readable : fs::read_to_string succeeds                                *)
(*   text     : the file's text                                            *)
(*   mtime    : the modification time, None when the metadata is not       *)
(*              available                                                  *)

Delim == <<"-", "-", "-">>

NL == <<"\n">>

\* the loop `for line in lines.by_ref()`: the YAML collected and the index of
\* the first line the loop has not consumed
RECURSIVE front_scan(_, _, _, _)
front_scan(ls, i, in_yaml, yaml) ==
    IF i > Len(ls) THEN [yaml |-> yaml, next |-> i]
    ELSE IF trim(ls[i]) = Delim
         THEN IF ~in_yaml
              THEN front_scan(ls, i + 1, TRUE, yaml)
              ELSE [yaml |-> yaml, next |-> i + 1]
         ELSE front_scan(ls, i + 1, in_yaml,
                         IF in_yaml THEN yaml \o ls[i] \o NL ELSE yaml)

\* the FrontMatter built when there is no YAML or serde_yaml fails
fallback_front_matter(entry, content) ==
    [title |-> file_stem(entry.comps),
     date |-> IF entry.mtime = None THEN None
              ELSE Some(systemtime_to_utc(entry.mtime[1])),
     author |-> None,
     description |-> Some(content)]

\* Ok(Article) as Some(record), Err as None
parse_markdown_file(entry, sepr) ==
    IF ~entry.readable THEN None
    ELSE
    LET ls == lines(entry.text)
        scan == front_scan(ls, 1, FALSE, <<>>)
        content == join(SubSeq(ls, scan.next, Len(ls)), NL) \o NL
        parsed == yaml_from_str(scan.yaml)
        fm == IF trim(scan.yaml) # <<>> /\ parsed # None
              THEN parsed[1]
              ELSE fallback_front_matter(entry, content)
    IN Some([fm |-> fm,
             content |-> content,
             path |-> path_string(entry.comps, sepr)])

----------------------------------------------------------------------------
(* collect_articles *)

X_md == <<"m", "d">>

X_markdown == <<"m", "a", "r", "k", "d", "o", "w", "n">>

SUMMARY_md == <<"S", "U", "M", "M", "A", "R", "Y", ".", "m", "d">>

\* the filters of the walk loop
is_chapter(entry) ==
    /\ entry.is_file
    /\ extension(entry.comps) # None
    /\ to_ascii_lowercase(extension(entry.comps)[1]) \in {X_md, X_markdown}
    /\ ~eq_ignore_ascii_case(file_name(entry.comps), SUMMARY_md)

\* the walk loop: the articles pushed, in walk order
RECURSIVE walk(_, _)
walk(es, sepr) ==
    IF es = <<>> THEN <<>>
    ELSE LET e == es[Len(es)]
             before == walk(SubSeq(es, 1, Len(es) - 1), sepr)
         IN IF is_chapter(e) /\ parse_markdown_file(e, sepr) # None
            THEN Append(before, parse_markdown_file(e, sepr)[1])
            ELSE before

\* a strict comparison in place of key_le: the sort is no longer stable
key_lt(a, b) == b # None /\ (a = None \/ a[1] < b[1])

\* Option<DateTime<Utc>> as a sort key: None is less than every Some
key_le(a, b) == a = None \/ (b # None /\ a[1] <= b[1])

\* <[T]>::sort_by_key(|a| a.fm.date): a stable sort, ascending
RECURSIVE sort_by_key(_)
sort_by_key(as) ==
    IF as = <<>> THEN <<>>
    ELSE LET a == as[Len(as)]
             rest == sort_by_key(SubSeq(as, 1, Len(as) - 1))
             n == Cardinality({i \in 1..Len(rest) :
                                  key_le(rest[i].fm.date, a.fm.date)})
         IN SubSeq(rest, 1, n) \o <<a>> \o SubSeq(rest, n + 1, Len(rest))

\* <[T]>::reverse
reverse(s) == [i \in 1..Len(s) |-> s[Len(s) + 1 - i]]

\* collect_articles without the final reverse
collect_articles_unreversed(es, sepr) == sort_by_key(walk(es, sepr))

collect_articles(es, sepr) == reverse(sort_by_key(walk(es, sepr)))

----------------------------------------------------------------------------
(* Slicing a str at a byte index panics unless the index is a character    *)
(* boundary.  A helper that may panic returns [panic, s].                  *)

Min(a, b) == IF a <= b THEN a ELSE b

Ok(s) == [panic |-> FALSE, s |-> s]

Panicked == [panic |-> TRUE, s |-> <<>>]

\* the byte offsets 0, .., b at which a character of s starts or s ends:
\* offset - k is the number of extra bytes of the first k characters
char_boundaries(s, b) ==
    LET two == {i \in 1..Len(s) : len_utf8(s[i]) >= 2}
        three == {i \in 1..Len(s) : len_utf8(s[i]) >= 3}
    IN {k \in 0..Min(b, Len(s)) :
           k + Cardinality({i \in two : i <= k})
             + Cardinality({i \in three : i <= k}) = b}

\* str::is_char_boundary
is_char_boundary(s, b) == char_boundaries(s, b) # {}

\* the number of characters of s before the byte offset b
chars_before(s, b) == CHOOSE k \in char_boundaries(s, b) : TRUE

\* &s[b..]
slice_from(s, b) ==
    IF is_char_boundary(s, b)
    THEN Ok(SubSeq(s, chars_before(s, b) + 1, Len(s)))
    ELSE Panicked

\* &s[..b]
slice_to(s, b) ==
    IF is_char_boundary(s, b)
    THEN Ok(SubSeq(s, 1, chars_before(s, b)))
    ELSE Panicked

----------------------------------------------------------------------------
(* markdown_to_html: pulldown_cmark for the block structure the model's    *)
(* texts have: ATX headings, setext `---` underlines, thematic breaks and  *)
(* paragraphs of plain text, separated by blank lines.                     *)

RECURSIVE hashes(_)
hashes(s) == IF s # <<>> /\ Head(s) = "#" THEN 1 + hashes(Tail(s)) ELSE 0

is_heading(line) ==
    LET t == trim_start(line)
        n == hashes(t)
    IN n \in 1..6 /\ (Len(t) = n \/ is_whitespace(t[n + 1]))

open_tag(name) == <<"<">> \o name \o <<">">>

close_tag(name) == <<"<", "/">> \o name \o <<">">>

element(name, inner) == open_tag(name) \o inner \o close_tag(name) \o NL

heading_html(line) ==
    LET t == trim_start(line)
        n == hashes(t)
    IN element(<<"h", Digits[n + 1]>>, trim(SubSeq(t, n + 1, Len(t))))

para_text(para) == join([i \in 1..Len(para) |-> trim(para[i])], NL)

flush_para(para) ==
    IF para = <<>> THEN <<>> ELSE element(<<"p">>, para_text(para))

RECURSIVE md_blocks(_, _, _)
md_blocks(ls, i, para) ==
    IF i > Len(ls) THEN flush_para(para)
    ELSE IF trim(ls[i]) = <<>>
         THEN flush_para(para) \o md_blocks(ls, i + 1, <<>>)
    ELSE IF trim(ls[i]) = Delim
         THEN (IF para = <<>> THEN <<"<", "h", "r", " ", "/", ">">> \o NL
               ELSE element(<<"h", "2">>, para_text(para)))
              \o md_blocks(ls, i + 1, <<>>)
    ELSE IF is_heading(ls[i])
         THEN flush_para(para) \o heading_html(ls[i])
              \o md_blocks(ls, i + 1, <<>>)
    ELSE md_blocks(ls, i + 1, Append(para, ls[i]))

markdown_to_html(md) == md_blocks(lines(md), 1, <<>>)

----------------------------------------------------------------------------
(* strip_leading_boilerplate, utf8_prefix, html_first_paragraphs *)

\* the loop over md.lines(): the final byte_idx (0 when the loop never
\* reaches a blank line after a heading)
RECURSIVE boilerplate_end(_, _, _, _)
boilerplate_end(ls, i, seen_heading, acc_bytes) ==
    IF i > Len(ls) THEN 0
    ELSE LET line_len_with_nl == byte_len(ls[i]) + 1
             seen == seen_heading \/ starts_with(trim_start(ls[i]), <<"#">>)
         IN IF i = 1 /\ trim(ls[i]) = <<>>
            THEN boilerplate_end(ls, i + 1, seen_heading,
                                 acc_bytes + line_len_with_nl)
            ELSE IF seen /\ trim(ls[i]) = <<>>
                 THEN acc_bytes + line_len_with_nl
                 ELSE boilerplate_end(ls, i + 1, seen,
                                      acc_bytes + line_len_with_nl)

strip_leading_boilerplate(md) ==
    LET byte_idx == boilerplate_end(lines(md), 1, FALSE, 0) IN
    IF byte_idx = 0 THEN Ok(md)
    ELSE slice_from(md, Min(byte_idx, byte_len(md)))

\* the loop over s.char_indices().enumerate(): the final last_byte
utf8_last_byte(s, max_chars) ==
    IF Len(s) > max_chars THEN byte_len(SubSeq(s, 1, max_chars))
    ELSE IF s = <<>> THEN 0
    ELSE byte_len(SubSeq(s, 1, Len(s) - 1)) + 1

utf8_prefix(s, max_chars) ==
    IF max_chars = 0 THEN Ok(<<>>)
    ELSE LET last_byte == utf8_last_byte(s, max_chars) IN
         IF last_byte = 0 \/ last_byte >= byte_len(s) THEN Ok(s)
         ELSE slice_to(s, last_byte)

\* str::find from a position: the index of the first match at or after
\* `from`, 0 when there is none
find(s, from, pat) ==
    LET hits == {i \in from..(Len(s) - Len(pat) + 1) :
                     SubSeq(s, i, i + Len(pat) - 1) = pat}
    IN IF hits = {} THEN 0
       ELSE CHOOSE i \in hits : \A j \in hits : i <= j

P_open == <<"<", "p">>

P_close == <<"<", "/", "p", ">">>

\* the while loop: the paragraphs pushed to `out`
RECURSIVE first_paragraphs(_, _, _, _)
first_paragraphs(html, start, count, max_paragraphs) ==
    IF count >= max_paragraphs THEN <<>>
    ELSE LET p_start == find(html, start, P_open) IN
         IF p_start = 0 THEN <<>>
         ELSE LET at_close == find(html, p_start, P_close) IN
              IF at_close = 0 THEN <<>>
              ELSE LET close == at_close + Len(P_close) IN
                   SubSeq(html, p_start, close - 1)
                   \o first_paragraphs(html, close, count + 1, max_paragraphs)

\* html_first_paragraphs without the final trim by character count
html_first_paragraphs_uncapped(html, max_paragraphs, max_chars) ==
    LET found == first_paragraphs(html, 1, 0, max_paragraphs)
    IN IF found = <<>> THEN html ELSE found

html_first_paragraphs(html, max_paragraphs, max_chars) ==
    LET found == first_paragraphs(html, 1, 0, max_paragraphs)
        out == IF found = <<>> THEN html ELSE found
    IN IF Len(out) > max_chars THEN SubSeq(out, 1, max_chars) ELSE out

----------------------------------------------------------------------------
(* build_feed *)

MIN_BODY_PREVIEW_CHARS == 80

PREVIEW_MD_SLICE_CHARS == 4000

PreviewParagraphs == 3

PreviewChars == 800

Dot_md == <<".", "m", "d">>

Dot_html == <<".", "h", "t", "m", "l">>

Slash_README_html == <<"/", "R", "E", "A", "D", "M", "E">> \o Dot_html

Slash_index_html == <<"/", "i", "n", "d", "e", "x">> \o Dot_html

\* the html_path of an article
html_path(path) ==
    replace(replace(replace(path, <<"\\">>, <<"/">>), Dot_md, Dot_html),
            Slash_README_html, Slash_index_html)

\* format!("{base_url}/{html_path}")
link_of(base_url, path) == base_url \o <<"/">> \o html_path(path)

\* preview_source that never looks at the description
preview_source_body_only(article) == trim(article.content)

\* the Markdown the preview is made from, before stripping and slicing
preview_source(article) ==
    LET content_trimmed == trim(article.content)
        body_len == Len(content_trimmed)
    IN IF body_len >= MIN_BODY_PREVIEW_CHARS \/ article.fm.description = None
       THEN content_trimmed
       ELSE article.fm.description[1]

\* the item's description; [panic, s]
preview_of(article, full_preview) ==
    IF full_preview THEN Ok(markdown_to_html(article.content))
    ELSE LET stripped == strip_leading_boilerplate(preview_source(article)) IN
         IF stripped.panic THEN Panicked
         ELSE LET sliced == utf8_prefix(stripped.s, PREVIEW_MD_SLICE_CHARS) IN
              IF sliced.panic THEN Panicked
              ELSE Ok(html_first_paragraphs(markdown_to_html(sliced.s),
                                            PreviewParagraphs, PreviewChars))

\* DateTime::to_rfc2822: the text is determined by the instant
to_rfc2822(date) == [rfc2822 |-> date]

\* the closure of `.map(|article| ...)`, given a preview that did not panic
build_item(article, base_url, full_preview) ==
    [title |-> Some(article.fm.title),
     link |-> Some(link_of(base_url, article.path)),
     description |-> Some(preview_of(article, full_preview).s),
     guid |-> Some([value |-> link_of(base_url, article.path),
                    permalink |-> TRUE]),
     pub_date |-> IF article.fm.date = None THEN None
                  ELSE Some(to_rfc2822(article.fm.date[1])),
     author |-> article.fm.author]

\* build_channel_for_slice
build_channel_for_slice(slice, title, base_url, description) ==
    [title |-> title,
     link |-> base_url \o <<"/">>,
     description |-> description,
     items |-> slice,
     generator |-> Some("mdbook-rss-feed 1.0.0")]

\* usize::to_string
RECURSIVE to_string(_)
to_string(n) ==
    IF n < 10 THEN <<Digits[n + 1]>>
    ELSE to_string(n \div 10) \o <<Digits[(n % 10) + 1]>>

Rss == <<"r", "s", "s">>

Dot_xml == <<".", "x", "m", "l">>

\* page_filename that numbers the pages from their 0-based index
page_filename_zero_based(page_idx) ==
    IF page_idx = 0 THEN Rss \o Dot_xml
    ELSE Rss \o to_string(page_idx) \o Dot_xml

\* the file name of the page with 0-based index page_idx
page_filename(page_idx) ==
    IF page_idx = 0 THEN Rss \o Dot_xml
    ELSE Rss \o to_string(page_idx + 1) \o Dot_xml

div_ceil(n, d) == (n + d - 1) \div d

\* build_pages with the page count rounded down
build_pages_floor(its, title, base_url, description, max_items, paginated) ==
    IF ~paginated \/ max_items = 0 \/ Len(its) <= max_items
    THEN <<[filename |-> Rss \o Dot_xml,
            channel |-> build_channel_for_slice(its, title, base_url,
                                                description)]>>
    ELSE [k \in 1..(Len(its) \div max_items) |->
             [filename |-> page_filename(k - 1),
              channel |-> build_channel_for_slice(
                              SubSeq(its, (k - 1) * max_items + 1,
                                     k * max_items),
                              title, base_url, description)]]

\* build_pages that splits whenever max_items allows, paginated or not
build_pages_unflagged(its, title, base_url, description, max_items, paginated) ==
    IF max_items = 0 \/ Len(its) <= max_items
    THEN <<[filename |-> Rss \o Dot_xml,
            channel |-> build_channel_for_slice(its, title, base_url,
                                                description)]>>
    ELSE [k \in 1..div_ceil(Len(its), max_items) |->
             [filename |-> page_filename(k - 1),
              channel |-> build_channel_for_slice(
                              SubSeq(its, (k - 1) * max_items + 1,
                                     Min(k * max_items, Len(its))),
                              title, base_url, description)]]

\* the pages pushed, from the item list
build_pages(its, title, base_url, description, max_items, paginated) ==
    IF ~paginated \/ max_items = 0 \/ Len(its) <= max_items
    THEN <<[filename |-> Rss \o Dot_xml,
            channel |-> build_channel_for_slice(its, title, base_url,
                                                description)]>>
    ELSE LET total_pages == div_ceil(Len(its), max_items) IN
         [k \in 1..total_pages |->
             LET page_idx == k - 1
                 start == page_idx * max_items
                 end == Min(start + max_items, Len(its))
             IN [filename |-> page_filename(page_idx),
                 channel |-> build_channel_for_slice(
                                 SubSeq(its, start + 1, end),
                                 title, base_url, description)]]

----------------------------------------------------------------------------
(* rss_to_json_feed and rss_to_atom.  An RSS item is the record build_item *)
(* makes, every field an Option; a pub_date that is RFC 2822 text is the   *)
(* record to_rfc2822 makes, any other text is a record without that field. *)

\* DateTime::parse_from_rfc2822(d).ok()
parse_from_rfc2822(d) ==
    IF "rfc2822" \in DOMAIN d THEN Some(d.rfc2822) ELSE None

\* DateTime::to_rfc3339: the text is determined by the instant
to_rfc3339(date) == [rfc3339 |-> date]

\* the id of a JSON Feed item that prefers the link to the guid
json_item_id_link_first(item) ==
    IF item.link # None THEN item.link[1]
    ELSE IF item.guid # None THEN item.guid[1].value
    ELSE IF item.title # None THEN item.title[1]
    ELSE <<>>

\* the closure's `id` in rss_to_json_feed
json_item_id(item) ==
    IF item.guid # None THEN item.guid[1].value
    ELSE IF item.link # None THEN item.link[1]
    ELSE IF item.title # None THEN item.title[1]
    ELSE <<>>

\* the closure of rss_to_json_feed: one JsonFeedItem
json_feed_item(item) ==
    [id |-> json_item_id(item),
     url |-> item.link,
     title |-> item.title,
     content_html |-> item.description,
     date_published |->
         IF item.pub_date = None
            \/ parse_from_rfc2822(item.pub_date[1]) = None
         THEN None
         ELSE Some(to_rfc3339(parse_from_rfc2822(item.pub_date[1])[1])),
     author |-> IF item.author = None THEN None
                ELSE Some([name |-> item.author[1]])]

rss_to_json_feed(channel, feed_url, next_url) ==
    [version |-> "https://jsonfeed.org/version/1.1",
     title |-> channel.title,
     home_page_url |-> Some(channel.link),
     feed_url |-> feed_url,
     description |-> Some(channel.description),
     next_url |-> next_url,
     items |-> [k \in 1..Len(channel.items) |->
                   json_feed_item(channel.items[k])]]

\* AtomLink { href, ..Default::default() }: rel defaults to "alternate"
AtomLink(href, rel) == [href |-> href, rel |-> rel]

\* the entry_id of rss_to_atom
atom_entry_id(item) ==
    IF item.guid = None
    THEN IF item.link = None
         THEN IF item.title = None THEN <<>> ELSE item.title[1]
         ELSE item.link[1]
    ELSE item.guid[1].value

\* the closure of rss_to_atom: one AtomEntry; a field the code does not set
\* keeps the value of AtomEntry::default()
atom_entry(item) ==
    [id |-> atom_entry_id(item),
     title |-> IF item.title = None THEN <<>> ELSE item.title[1],
     links |-> IF item.link = None THEN <<>>
               ELSE <<AtomLink(item.link[1], "alternate")>>,
     content |-> IF item.description = None THEN None
                 ELSE Some([content_type |-> "html",
                            value |-> Some(item.description[1])]),
     updated |-> IF item.pub_date = None THEN None
                 ELSE parse_from_rfc2822(item.pub_date[1])]

rss_to_atom(channel) ==
    [title |-> channel.title,
     entries |-> [k \in 1..Len(channel.items) |->
                     atom_entry(channel.items[k])],
     links |-> IF channel.link # <<>>
               THEN <<AtomLink(channel.link, "alternate")>>
               ELSE <<>>,
     id |-> IF channel.link # <<>> THEN channel.link ELSE channel.title,
     subtitle |-> IF channel.description # <<>>
                  THEN Some(channel.description)
                  ELSE None]

----------------------------------------------------------------------------
(* The steps of main that make the feed files.  `bin` names the binary:    *)
(* "src/bin" is src/bin/mdbook-rss-feed.rs, "1.3.1" is                     *)
(* mdbook-rss-feed-1.3.1/src/bin/mdbook-rss-feed.rs.                       *)

Default_site_url ==
    <<"h", "t", "t", "p", "s", ":", "/", "/", "e", "x", "a", "m", "p", "l",
      "e", ".", "c", "o", "m", "/">>

\* the site_url main works with: src/bin takes the configured text as it
\* is, 1.3.1 trims it, replaces an empty one by the default and strips the
\* trailing slashes
main_site_url(bin, configured) ==
    IF bin = "1.3.1"
    THEN trim_end_matches(IF trim(configured) = <<>> THEN Default_site_url
                          ELSE trim(configured), "/")
    ELSE configured

\* `suffix`: "" for the first page, the page number for the others
suffix(page_idx) == IF page_idx = 0 THEN <<>> ELSE to_string(page_idx + 1)

Feed == <<"f", "e", "e", "d">>

Dot_json == <<".", "j", "s", "o", "n">>

Atom == <<"a", "t", "o", "m">>

\* format!("{}/feed{}.json", site_url, suffix)
feed_json_url(site_url, sfx) == site_url \o <<"/">> \o Feed \o sfx \o Dot_json

\* format!("{}/atom{}.xml", site_url, suffix)
atom_xml_url(site_url, sfx) == site_url \o <<"/">> \o Atom \o sfx \o Dot_xml

\* the JSON Feed main makes for the page with index page_idx
main_json_feed(bin, site_url, ps, page_idx) ==
    LET self_url == feed_json_url(site_url, suffix(page_idx))
        total_pages == Len(ps)
        next_url == IF bin = "1.3.1" /\ page_idx + 1 < total_pages
                    THEN Some(feed_json_url(site_url, to_string(page_idx + 2)))
                    ELSE None
    IN rss_to_json_feed(ps[page_idx + 1].channel, Some(self_url), next_url)

\* the name of the JSON Feed file of the page with index page_idx
json_path(page_idx) ==
    IF page_idx = 0 THEN Feed \o Dot_json
    ELSE Feed \o to_string(page_idx + 1) \o Dot_json

\* the links 1.3.1 sets on the Atom feed of the page with index page_idx
atom_page_links(site_url, total_pages, page_idx) ==
    LET self_url == atom_xml_url(site_url, suffix(page_idx))
        next_url == IF page_idx + 1 < total_pages
                    THEN Some(atom_xml_url(site_url, to_string(page_idx + 2)))
                    ELSE None
        prev_url == IF page_idx > 0
                    THEN Some(atom_xml_url(
                             site_url,
                             IF page_idx - 1 = 0 THEN <<>>
                             ELSE to_string(page_idx)))
                    ELSE None
    IN <<AtomLink(self_url, "self")>>
       \o (IF next_url = None THEN <<>> ELSE <<AtomLink(next_url[1], "next")>>)
       \o (IF prev_url = None THEN <<>> ELSE <<AtomLink(prev_url[1], "prev")>>)

\* the Atom feed main makes for the page with index page_idx
main_atom_feed(bin, site_url, ps, page_idx) ==
    LET atom_feed == rss_to_atom(ps[page_idx + 1].channel) IN
    IF bin = "1.3.1"
    THEN [atom_feed EXCEPT
             !.links = atom_page_links(site_url, Len(ps), page_idx),
             !.id = atom_xml_url(site_url, suffix(page_idx))]
    ELSE atom_feed

\* the name of the Atom file of the page with index page_idx
atom_path(page_idx) ==
    IF page_idx = 0 THEN Atom \o Dot_xml
    ELSE Atom \o to_string(page_idx + 1) \o Dot_xml

\* Channel::to_string, AtomFeed::to_string: the XML text of a feed
to_xml(feed) == [xml |-> feed]

\* serde_json::to_vec_pretty, serde_json::to_string: the JSON text of a value
to_json(value) == [json |-> value]

\* how a run ends when a write fails after `failed` has answered: src/bin
\* panics in expect(), 1.3.1 calls exit(1)
write_failure(bin) == IF bin = "1.3.1" THEN "exit1" ELSE "panicked"

\* a main that goes on after a failed write
after_write_ignoring_failure(bin, ok, on_success) == on_success

\* where main is after a write: on with the loop, or the end of the run
after_write(bin, ok, on_success) ==
    IF ok THEN on_success ELSE write_failure(bin)

----------------------------------------------------------------------------
(* The run.  build_feed is run on a directory tree and a configuration,    *)
(* either called as a library function (mpc = "lib") or as step 4 of main; *)
(* the other public and private functions are called on an argument `arg`. *)

VARIABLES
    entries,    \* the directory walk: the entries below src_dir, in walk order
    sep,        \* the platform's path separator
    cfg,        \* build_feed's arguments
    articles,   \* what collect_articles returned
    items,      \* the items built from the articles
    pages,      \* BuildResult.pages
    pc,         \* "start", "done", or "panicked"
    env,        \* main's surroundings: the binary, its first argument, the
                \* text on stdin, the json-feed and atom options
    mpc,        \* where main is: "lib" when main is not running
    page_idx,   \* the index of the loop main is in
    written,    \* the files written so far, in order: [path, content]
    stdout,     \* the lines printed to standard output
    arg,        \* the function called and its arguments
    ret         \* what it returned

vars == <<entries, sep, cfg, articles, items, pages, pc,
          env, mpc, page_idx, written, stdout, arg, ret>>

main_vars == <<env, mpc, page_idx, written, stdout>>

\* build_feed(src_dir, title, site_url, description, full_preview,
\* max_items, paginated): the articles collected, the items, the pages, and
\* whether a preview panicked (the items are built in order, so a panic
\* leaves no result at all)
build_feed(es, sepr, c) ==
    LET arts == collect_articles(es, sepr)
        base_url == trim_end_matches(c.site_url, "/")
        panics == \E i \in 1..Len(arts) :
                      preview_of(arts[i], c.full_preview).panic
        its == [i \in 1..Len(arts) |->
                   build_item(arts[i], base_url, c.full_preview)]
    IN [articles |-> arts,
        panicked |-> panics,
        items |-> IF panics THEN <<>> ELSE its,
        pages |-> IF panics THEN <<>>
                  ELSE build_pages(its, c.title, base_url, c.description,
                                   c.max_items, c.paginated)]

\* handle_mdbook_hooks (in 1.3.1 the same tests at the head of main)
HandleHooks ==
    /\ mpc = "args"
    /\ IF env.arg1 \in {Some("--version"), Some("-V")}
       THEN /\ stdout' = Append(stdout,
                                [line |-> "mdbook-rss-feed CARGO_PKG_VERSION"])
            /\ mpc' = "returned"
       ELSE IF env.arg1 = Some("supports")
       THEN /\ stdout' = Append(stdout, [line |-> "true"])
            /\ mpc' = "returned"
       ELSE /\ stdout' = stdout
            /\ mpc' = "read"
    /\ UNCHANGED <<entries, sep, cfg, articles, items, pages, pc,
                   env, page_idx, written, arg, ret>>

\* main, steps 1 to 3: read stdin, parse it as a JSON array, take the
\* configuration and the book.  Text that is no JSON makes expect() panic;
\* 1.3.1 ends with exit(1) on an empty stdin before it parses.
ReadInput ==
    /\ mpc = "read"
    /\ mpc' = IF env.stdin.kind = "empty"
              THEN (IF env.bin = "1.3.1" THEN "exit1" ELSE "panicked")
              ELSE IF env.stdin.kind = "invalid" THEN "panicked"
              ELSE IF Len(env.stdin.elems) < 2 THEN "exit1"
              ELSE "build"
    /\ UNCHANGED <<entries, sep, cfg, articles, items, pages, pc,
                   env, page_idx, written, stdout, arg, ret>>

\* build_feed, called as a library function or as step 4 of main (which
\* gives it the site_url main works with); a panic inside it ends main
BuildFeed ==
    /\ pc = "start"
    /\ mpc \in {"lib", "build"}
    /\ arg.fn = IF mpc = "lib" THEN "build_feed" ELSE "main"
    /\ \E r \in {build_feed(entries, sep,
                            IF mpc = "lib" THEN cfg
                            ELSE [cfg EXCEPT !.site_url =
                                     main_site_url(env.bin, cfg.site_url)])} :
           /\ articles' = r.articles
           /\ items' = r.items
           /\ pages' = r.pages
           /\ pc' = IF r.panicked THEN "panicked" ELSE "done"
           /\ mpc' = IF mpc = "lib" THEN "lib"
                     ELSE IF r.panicked THEN "panicked" ELSE "rss"
    /\ UNCHANGED <<entries, sep, cfg, env, page_idx, written, stdout,
                   arg, ret>>

\* main, step 5: one turn of the loop over result.pages, or its end
WriteRssPage ==
    /\ mpc = "rss"
    /\ IF page_idx < Len(pages)
       THEN \E ok \in BOOLEAN :
                /\ written' =
                       IF ok
                       THEN Append(written,
                                   [path |-> pages[page_idx + 1].filename,
                                    content |->
                                        to_xml(pages[page_idx + 1].channel)])
                       ELSE written
                /\ mpc' = after_write(env.bin, ok, "rss")
                /\ page_idx' = page_idx + 1
       ELSE /\ written' = written
            /\ mpc' = "json"
            /\ page_idx' = 0
    /\ UNCHANGED <<entries, sep, cfg, articles, items, pages, pc,
                   env, stdout, arg, ret>>

\* main, step 6: one turn of the loop that writes the JSON Feeds, or its
\* end (at once when json-feed is off)
WriteJsonFeed ==
    /\ mpc = "json"
    /\ IF env.json_enabled /\ page_idx < Len(pages)
       THEN \E ok \in BOOLEAN :
                /\ written' =
                       IF ok
                       THEN Append(written,
                                   [path |-> json_path(page_idx),
                                    content |->
                                        to_json(main_json_feed(
                                            env.bin,
                                            main_site_url(env.bin, cfg.site_url),
                                            pages, page_idx))])
                       ELSE written
                /\ mpc' = after_write(env.bin, ok, "json")
                /\ page_idx' = page_idx + 1
       ELSE /\ written' = written
            /\ mpc' = "atom"
            /\ page_idx' = 0
    /\ UNCHANGED <<entries, sep, cfg, articles, items, pages, pc,
                   env, stdout, arg, ret>>

\* main, step 7: one turn of the loop that writes the Atom feeds, or its
\* end (at once when atom is off)
WriteAtomFeed ==
    /\ mpc = "atom"
    /\ IF env.atom_enabled /\ page_idx < Len(pages)
       THEN \E ok \in BOOLEAN :
                /\ written' =
                       IF ok
                       THEN Append(written,
                                   [path |-> atom_path(page_idx),
                                    content |->
                                        to_xml(main_atom_feed(
                                            env.bin,
                                            main_site_url(env.bin, cfg.site_url),
                                            pages, page_idx))])
                       ELSE written
                /\ mpc' = after_write(env.bin, ok, "atom")
                /\ page_idx' = page_idx + 1
       ELSE /\ written' = written
            /\ mpc' = "echo"
            /\ page_idx' = 0
    /\ UNCHANGED <<entries, sep, cfg, articles, items, pages, pc,
                   env, stdout, arg, ret>>

\* main, step 8: the book, the second element of the input, goes to stdout
Echo ==
    /\ mpc = "echo"
    /\ stdout' = Append(stdout, to_json(env.stdin.elems[2]))
    /\ mpc' = "returned"
    /\ UNCHANGED <<entries, sep, cfg, articles, items, pages, pc,
                   env, page_idx, written, arg, ret>>

main ==
    \/ HandleHooks
    \/ ReadInput
    \/ BuildFeed
    \/ WriteRssPage
    \/ WriteJsonFeed
    \/ WriteAtomFeed
    \/ Echo

\* a call of utf8_prefix(s, max_chars)
Utf8Prefix ==
    /\ pc = "start"
    /\ arg.fn = "utf8_prefix"
    /\ \E r \in {utf8_prefix(arg.s, arg.max_chars)} :
           /\ ret' = r
           /\ pc' = IF r.panic THEN "panicked" ELSE "done"
    /\ UNCHANGED <<entries, sep, cfg, articles, items, pages, main_vars, arg>>

\* a call of strip_leading_boilerplate(md)
StripLeadingBoilerplate ==
    /\ pc = "start"
    /\ arg.fn = "strip_leading_boilerplate"
    /\ \E r \in {strip_leading_boilerplate(arg.md)} :
           /\ ret' = r
           /\ pc' = IF r.panic THEN "panicked" ELSE "done"
    /\ UNCHANGED <<entries, sep, cfg, articles, items, pages, main_vars, arg>>

\* a call of html_first_paragraphs(html, max_paragraphs, max_chars)
HtmlFirstParagraphs ==
    /\ pc = "start"
    /\ arg.fn = "html_first_paragraphs"
    /\ ret' = html_first_paragraphs(arg.html, arg.max_paragraphs,
                                    arg.max_chars)
    /\ pc' = "done"
    /\ UNCHANGED <<entries, sep, cfg, articles, items, pages, main_vars, arg>>

\* a call of rss_to_json_feed(channel, feed_url, next_url)
RssToJsonFeed ==
    /\ arg.fn = "converters"
    /\ ret.json = None
    /\ ret' = [ret EXCEPT !.json = Some(rss_to_json_feed(
                                        arg.channel, arg.feed_url,
                                        arg.next_url))]
    /\ pc' = IF ret.atom # None THEN "done" ELSE pc
    /\ UNCHANGED <<entries, sep, cfg, articles, items, pages, main_vars, arg>>

\* a call of rss_to_atom(channel)
RssToAtom ==
    /\ arg.fn = "converters"
    /\ ret.atom = None
    /\ ret' = [ret EXCEPT !.atom = Some(rss_to_atom(arg.channel))]
    /\ pc' = IF ret.json # None THEN "done" ELSE pc
    /\ UNCHANGED <<entries, sep, cfg, articles, items, pages, main_vars, arg>>

\* the two converters applied to one channel, in either order
Convert == RssToJsonFeed \/ RssToAtom

Next ==
    \/ main
    \/ Utf8Prefix
    \/ StripLeadingBoilerplate
    \/ HtmlFirstParagraphs
    \/ Convert

----------------------------------------------------------------------------
(* Inputs.  Texts are made of whole lines; names and lines are written out *)
(* character by character.                                                 *)

MaxDocs == 11

MaxItems == 3

MaxFiles == 3

MaxLines == 4

MaxLinked == 2

MaxBodyLines == 3

\* every sequence over S of length at most n
SeqsUpTo(S, n) == UNION {[1..k -> S] : k \in 0..n}

\* a text from its lines, each ended by "\n"
RECURSIVE text_of(_)
text_of(ls) == IF ls = <<>> THEN <<>> ELSE Head(ls) \o NL \o text_of(Tail(ls))

File(comps, text, mtime) ==
    [comps |-> comps, is_file |-> TRUE, readable |-> TRUE,
     text |-> text, mtime |-> mtime]

L_title == <<"t", "i", "t", "l", "e", ":", " ", "T">>

L_title_empty == <<"t", "i", "t", "l", "e", ":", " ", "\"", "\"">>

L_date1 == <<"d", "a", "t", "e", ":", " ",
             "2", "0", "2", "4", "-", "0", "1", "-", "0", "5">>

L_date1_rfc == L_date1 \o <<"T", "0", "0", ":", "0", "0", ":", "0", "0", "Z">>

L_date2 == <<"d", "a", "t", "e", ":", " ",
             "2", "0", "2", "4", "-", "0", "1", "-", "0", "6">>

L_date_junk == <<"d", "a", "t", "e", ":", " ", "s", "o", "o", "n">>

L_author == <<"a", "u", "t", "h", "o", "r", ":", " ", "A">>

L_desc == <<"d", "e", "s", "c", "r", "i", "p", "t", "i", "o", "n", ":", " ">>

L_heading == <<"#", " ", "H", "i">>

L_world == <<"W", "o", "r", "l", "d">>

L_long == [i \in 1..MIN_BODY_PREVIEW_CHARS |-> "x"]

Stamp1 == Stamp(2024, 1, 5, 0, 0, 0)

Dot_markdown == <<".">> \o X_markdown

N_a_md == <<"a">> \o Dot_md

N_README_md == <<"R", "E", "A", "D", "M", "E">> \o Dot_md

N_index_md == <<"i", "n", "d", "e", "x">> \o Dot_md

N_n_markdown == <<"n">> \o Dot_markdown

N_A_MD == <<"A", ".", "M", "D">>

N_a_html_md == <<"a">> \o Dot_html \o Dot_md

N_a_md_md == <<"a">> \o Dot_md \o Dot_md

N_a_txt == <<"a", ".", "t", "x", "t">>

N_dot_md == Dot_md

N_summary_MD == <<"s", "u", "m", "m", "a", "r", "y", ".", "M", "D">>

Title == <<"B", "o", "o", "k">>

Description == <<"D", "e", "s", "c">>

SiteUrls == {<<"u">>, <<"u", "/">>}

Cfg(site_url, full_preview, max_items, paginated) ==
    [title |-> Title, site_url |-> site_url, description |-> Description,
     full_preview |-> full_preview, max_items |-> max_items,
     paginated |-> paginated]

\* main's variables when build_feed is called as a library function
NoMain ==
    /\ env = [bin |-> "none"]
    /\ mpc = "lib"
    /\ page_idx = 0
    /\ written = <<>>
    /\ stdout = <<>>

Start ==
    /\ articles = <<>>
    /\ items = <<>>
    /\ pages = <<>>
    /\ pc = "start"
    /\ NoMain
    /\ arg = [fn |-> "build_feed"]
    /\ ret = None

\* a front-matter block with the given lines, then the body lines
with_front_matter(fm_lines, body_lines) ==
    text_of(<<Delim>> \o fm_lines \o <<Delim>> \o body_lines)

(* Pagination: n chapters 1.md .. n.md and every page size. *)
numbered(i) == File(<<to_string(i) \o Dot_md>>,
                    with_front_matter(<<L_title, L_date1>>, <<L_world>>),
                    Some(i))

InitPaginate ==
    /\ \E n \in 0..MaxDocs : entries = [i \in 1..n |-> numbered(i)]
    /\ sep = "/"
    /\ \E fp \in BOOLEAN, m \in 0..MaxItems, pg \in BOOLEAN :
           cfg = Cfg(<<"u">>, fp, m, pg)
    /\ Start

(* Ordering: chapters i.md whose dates are equal, different, absent or the *)
(* file's modification time.                                               *)
DatedTexts ==
    {with_front_matter(<<L_title, d>>, <<L_world>>) :
         d \in {L_date1, L_date1_rfc, L_date2, L_date_junk}}

DatedFiles(i) ==
    {File(<<to_string(i) \o Dot_md>>, t, Some(i)) : t \in DatedTexts}
    \cup {File(<<to_string(i) \o Dot_md>>, text_of(<<L_world>>), m) :
              m \in {None, Some(Stamp1)}}

InitSort ==
    /\ \E n \in 0..MaxFiles :
           entries \in {es \in [1..n -> UNION {DatedFiles(i) : i \in 1..n}] :
                            \A i \in 1..n : es[i] \in DatedFiles(i)}
    /\ sep = "/"
    /\ cfg = Cfg(<<"u">>, FALSE, 0, FALSE)
    /\ Start

(* Parsing: one file of any lines. *)
ParseLines ==
    {Delim, L_title, L_title_empty, L_date1, L_world, <<>>}

InitParse ==
    /\ \E ls \in SeqsUpTo(ParseLines, MaxLines) :
           entries = <<File(<<N_a_md>>, text_of(ls), Some(Stamp1))>>
    /\ sep = "/"
    /\ cfg = Cfg(<<"u">>, FALSE, 0, FALSE)
    /\ Start

(* Links: files of every kind of name, in the root and in a directory. *)
LinkPaths ==
    {<<N_a_md>>, <<N_README_md>>, <<N_n_markdown>>, <<N_A_MD>>,
     <<N_a_html_md>>, <<N_a_md_md>>, <<N_a_txt>>, <<N_dot_md>>,
     <<SUMMARY_md>>, <<N_summary_MD>>,
     <<<<"d">>, N_a_md>>, <<<<"d">>, N_README_md>>, <<<<"d">>, N_index_md>>}

LinkEntries ==
    {File(c, with_front_matter(<<L_title, L_date1>>, <<L_world>>), Some(Stamp1)) :
         c \in LinkPaths}
    \cup {[comps |-> <<<<"d">>>>, is_file |-> FALSE, readable |-> FALSE,
           text |-> <<>>, mtime |-> Some(Stamp1)],
          [comps |-> <<<<"b">> \o Dot_md>>, is_file |-> TRUE,
           readable |-> FALSE, text |-> <<>>, mtime |-> Some(Stamp1)]}

InitLink ==
    /\ entries \in {es \in SeqsUpTo(LinkEntries, MaxLinked) :
                       \A i, j \in 1..Len(es) :
                           i # j => es[i].comps # es[j].comps}
    /\ sep \in {"/", "\\"}
    /\ \E u \in SiteUrls : cfg = Cfg(u, FALSE, 0, FALSE)
    /\ Start

(* Previews: one chapter, with and without a description, over a body of   *)
(* any lines.                                                              *)
\* a line of more characters than a preview may have
L_longer == [i \in 1..(PreviewChars + 1) |-> "x"]

\* such a line of three-byte characters, ended by a one-byte character
L_wide == [i \in 1..PreviewChars |-> "E3"] \o <<"x">>

\* the number of L_longer lines that make a paragraph of more characters
\* than the Markdown slice may have
SliceLines == (PREVIEW_MD_SLICE_CHARS \div Len(L_longer)) + 2

DescLines ==
    {<<>>,
     <<L_desc \o <<"D">>>>,
     <<L_desc \o <<"\"", " ", "\"">>>>,
     <<L_desc \o L_longer>>}

BodyLines == {L_heading, L_world, L_world \o <<"E3">>, <<>>}

\* bodies of at least MIN_BODY_PREVIEW_CHARS characters
LongBodies ==
    {<<L_long>>, <<L_heading, <<>>, L_long>>, <<L_long, L_long>>,
     <<L_longer>>, <<L_wide>>, <<L_long, <<>>, L_longer, <<>>, L_long>>,
     [i \in 1..SliceLines |-> L_longer]}

InitPreview ==
    /\ \E d \in DescLines, b \in SeqsUpTo(BodyLines, MaxBodyLines) \cup LongBodies :
           entries = <<File(<<N_a_md>>,
                            with_front_matter(<<L_title, L_date1>> \o d, b),
                            Some(Stamp1))>>
    /\ sep = "/"
    /\ \E fp \in BOOLEAN : cfg = Cfg(<<"u">>, fp, 0, FALSE)
    /\ Start

(* main: every first argument, every kind of text on stdin, both binaries, *)
(* the json-feed and atom options, over trees of up to MaxMainDocs         *)
(* chapters and one tree whose chapter makes build_feed panic.             *)
MaxMainDocs == 3

MaxMainItems == 2

Context == [root |-> "."]

Books == {[sections |-> <<>>], [sections |-> <<"chapter">>]}

\* the text on stdin: empty, no JSON, or a JSON array of 1, 2 or 3 elements
Stdins ==
    {[kind |-> "empty"], [kind |-> "invalid"],
     [kind |-> "array", elems |-> <<Context>>]}
    \cup {[kind |-> "array", elems |-> <<Context, b>>] : b \in Books}
    \cup {[kind |-> "array", elems |-> <<Context, b, Context>>] : b \in Books}

Arg1s == {None, Some("supports"), Some("--version"), Some("-V")}

Bins == {"src/bin", "1.3.1"}

MainTrees ==
    {[i \in 1..n |-> numbered(i)] : n \in 0..MaxMainDocs}
    \cup {<<File(<<N_a_md>>,
                 with_front_matter(<<L_title, L_date1>>,
                                   <<L_world \o <<"E3">>>>),
                 Some(Stamp1))>>}

InitMain ==
    /\ entries \in MainTrees
    /\ sep = "/"
    /\ \E u \in SiteUrls, m \in 0..MaxMainItems, pg \in BOOLEAN :
           cfg = Cfg(u, FALSE, m, pg)
    /\ \E b \in Bins, a \in Arg1s, i \in Stdins, j \in BOOLEAN, x \in BOOLEAN :
           env = [bin |-> b, arg1 |-> a, stdin |-> i,
                  json_enabled |-> j, atom_enabled |-> x]
    /\ articles = <<>>
    /\ items = <<>>
    /\ pages = <<>>
    /\ pc = "start"
    /\ mpc = "args"
    /\ page_idx = 0
    /\ written = <<>>
    /\ stdout = <<>>
    /\ arg = [fn |-> "main"]
    /\ ret = None

(* The converters: channels of up to MaxChannelItems items, each item with *)
(* and without a guid, a link and a title, with the other fields absent,  *)
(* present, or present with a pub_date that is no RFC 2822 date.          *)
MaxChannelItems == 2

\* what a library call returns into
NoLibrary ==
    /\ entries = <<>>
    /\ sep = "/"
    /\ cfg = Cfg(<<"u">>, FALSE, 0, FALSE)
    /\ articles = <<>>
    /\ items = <<>>
    /\ pages = <<>>
    /\ pc = "start"
    /\ NoMain

ItemExtras ==
    {[description |-> None, pub_date |-> None, author |-> None],
     [description |-> Some(<<"<", "p", ">", "D", "<", "/", "p", ">">>),
      pub_date |-> Some(to_rfc2822(Stamp1)), author |-> Some(<<"A">>)],
     [description |-> Some(<<"D">>),
      pub_date |-> Some([text |-> <<"s", "o", "o", "n">>]), author |-> None]}

RssItems ==
    {[title |-> t, link |-> l, guid |-> g, description |-> x.description,
      pub_date |-> x.pub_date, author |-> x.author] :
         t \in {None, Some(<<"t">>)},
         l \in {None, Some(<<"l">>)},
         g \in {None, Some([value |-> <<"g">>, permalink |-> FALSE])},
         x \in ItemExtras}

InitConvert ==
    /\ \E its \in SeqsUpTo(RssItems, MaxChannelItems) :
           \/ arg = [fn |-> "converters",
                     channel |-> build_channel_for_slice(
                                     its, Title, <<"u">>, Description),
                     feed_url |-> Some(<<"u", "/", "f">>),
                     next_url |-> Some(<<"u", "/", "f", "2">>)]
           \/ arg = [fn |-> "converters",
                     channel |-> [title |-> Title, link |-> <<>>,
                                  description |-> <<>>, items |-> its,
                                  generator |-> None],
                     feed_url |-> None,
                     next_url |-> None]
    /\ ret = [json |-> None, atom |-> None]
    /\ NoLibrary

(* utf8_prefix: every string of up to MaxPrefixLen characters of one, two *)
(* and three bytes, every max_chars up to MaxPrefixChars.                  *)
MaxPrefixLen == 4

MaxPrefixChars == 3

InitPrefix ==
    /\ \E t \in SeqsUpTo({"a", "E2", "E3"}, MaxPrefixLen),
          n \in 0..MaxPrefixChars :
           arg = [fn |-> "utf8_prefix", s |-> t, max_chars |-> n]
    /\ ret = None
    /\ NoLibrary

(* strip_leading_boilerplate: texts of up to MaxStripLines lines, each     *)
(* ended by "\n" or by "\r\n", then nothing or a last line without line    *)
(* ending.                                                                 *)
MaxStripLines == 3

StripLines ==
    {line \o ending :
         line \in {<<"#", "h">>, <<" ", "#", "h">>, <<"w">>, <<"E3">>,
                   <<>>, <<" ">>},
         ending \in {<<"\n">>, <<"\r", "\n">>}}

\* the concatenation of a sequence of strings
RECURSIVE concat(_)
concat(ss) == IF ss = <<>> THEN <<>> ELSE Head(ss) \o concat(Tail(ss))

InitStrip ==
    /\ \E ls \in SeqsUpTo(StripLines, MaxStripLines),
          last \in {<<>>, <<"w">>} :
           arg = [fn |-> "strip_leading_boilerplate",
                  md |-> concat(ls) \o last]
    /\ ret = None
    /\ NoLibrary

(* html_first_paragraphs: fragments of up to MaxBlocks blocks as           *)
(* pulldown_cmark renders them: paragraphs, a heading, a code block, a     *)
(* list.                                                                   *)
MaxBlocks == 4

H_pre ==
    <<"<", "p", "r", "e", ">", "<", "c", "o", "d", "e", ">", "x", "\n",
      "<", "/", "c", "o", "d", "e", ">", "<", "/", "p", "r", "e", ">", "\n">>

H_ul ==
    <<"<", "u", "l", ">", "\n", "<", "l", "i", ">", "i", "<", "/", "l", "i",
      ">", "\n", "<", "/", "u", "l", ">", "\n">>

HtmlBlocks ==
    {element(<<"p">>, <<"a">>), element(<<"p">>, <<"b">>),
     element(<<"h", "1">>, <<"t">>), H_pre, H_ul}

InitParagraphs ==
    /\ \E bs \in SeqsUpTo(HtmlBlocks, MaxBlocks) :
           arg = [fn |-> "html_first_paragraphs", html |-> concat(bs),
                  max_paragraphs |-> PreviewParagraphs,
                  max_chars |-> PreviewChars]
    /\ ret = None
    /\ NoLibrary

Init ==
    \/ InitPaginate \/ InitSort \/ InitParse \/ InitLink \/ InitPreview
    \/ InitMain \/ InitConvert \/ InitPrefix \/ InitStrip \/ InitParagraphs

Spec == Init /\ [][Next]_vars

SpecPaginate == InitPaginate /\ [][BuildFeed]_vars

SpecSort == InitSort /\ [][BuildFeed]_vars

SpecParse == InitParse /\ [][BuildFeed]_vars

SpecLink == InitLink /\ [][BuildFeed]_vars

SpecPreview == InitPreview /\ [][BuildFeed]_vars

SpecMain == InitMain /\ [][main]_vars

SpecConvert == InitConvert /\ [][Convert]_vars

SpecPrefix == InitPrefix /\ [][Utf8Prefix]_vars

SpecStrip == InitStrip /\ [][StripLeadingBoilerplate]_vars

SpecParagraphs == InitParagraphs /\ [][HtmlFirstParagraphs]_vars

----------------------------------------------------------------------------
(* Properties of build_feed's pagination *)

\* the items of all pages, in page order
RECURSIVE concat_pages(_)
concat_pages(ps) ==
    IF ps = <<>> THEN <<>>
    ELSE Head(ps).channel.items \o concat_pages(Tail(ps))

PagesAreChunks ==
    /\ \A k \in 1..Len(pages) :
           pages[k].channel.items =
               SubSeq(items, (k - 1) * cfg.max_items + 1,
                      Min(k * cfg.max_items, Len(items)))
    /\ concat_pages(pages) = items

\* C1 as claimed: with pagination enabled and page size P > 0, N entries
\* give exactly ceil(N/P) pages, page i holds the entries
\* [i*P, min((i+1)*P, N)), and the pages concatenated are the item list.
C1_AsClaimed ==
    (pc = "done" /\ cfg.paginated /\ cfg.max_items > 0) =>
        /\ Len(pages) * cfg.max_items >= Len(items)
        /\ (Len(pages) - 1) * cfg.max_items < Len(items)
        /\ PagesAreChunks

\* C1, amended: with pagination enabled and page size P > 0, N >= 1 entries
\* give exactly ceil(N/P) pages and N = 0 entries give one empty page; page
\* i holds the entries [i*P, min((i+1)*P, N)), and the pages concatenated
\* are the item list, nothing lost, duplicated or reordered.
C1_Pagination ==
    (pc = "done" /\ cfg.paginated /\ cfg.max_items > 0) =>
        /\ Len(items) >= 1 =>
               /\ Len(pages) * cfg.max_items >= Len(items)
               /\ (Len(pages) - 1) * cfg.max_items < Len(items)
        /\ Len(items) = 0 => Len(pages) = 1
        /\ PagesAreChunks

C1_Witness ==
    /\ pc = "done" /\ cfg.paginated /\ cfg.max_items = 2
    /\ Len(items) = 5 /\ Len(pages) = 3
    /\ Len(pages[3].channel.items) = 1

\* C2: build_feed returns exactly one page, named rss.xml and holding every
\* entry in order, when paginated is false, or max_items is 0, or there are
\* at most max_items entries; otherwise it returns more than one page.
C2_SinglePage ==
    pc = "done" =>
        IF ~cfg.paginated \/ cfg.max_items = 0 \/ Len(items) <= cfg.max_items
        THEN /\ Len(pages) = 1
             /\ pages[1].filename = <<"r", "s", "s", ".", "x", "m", "l">>
             /\ pages[1].channel.items = items
        ELSE Len(pages) > 1

C2_Witness ==
    /\ pc = "done" /\ ~cfg.paginated /\ cfg.max_items = 2
    /\ Len(items) = 5 /\ Len(pages) = 1
    /\ Len(pages[1].channel.items) = 5

\* the decimal numeral of a page number below 100, digit by digit
page_number(k) ==
    IF k < 10 THEN <<Digits[k + 1]>>
    ELSE <<Digits[(k \div 10) + 1], Digits[(k % 10) + 1]>>

\* C16: when build_feed returns more than one page, page k is named rss.xml
\* for k = 1 and rss<k>.xml for k >= 2, so the names are pairwise distinct
\* and numbered consecutively from 2; 5 documents with paginated = true and
\* max_items = 2 give rss.xml, rss2.xml, rss3.xml with 2, 2 and 1 entries.
C16_PageNames ==
    pc = "done" =>
        /\ Len(pages) > 1 =>
               /\ \A k \in 1..Len(pages) :
                      pages[k].filename =
                          IF k = 1 THEN <<"r", "s", "s", ".", "x", "m", "l">>
                          ELSE <<"r", "s", "s">> \o page_number(k)
                               \o <<".", "x", "m", "l">>
               /\ \A j, k \in 1..Len(pages) :
                      j # k => pages[j].filename # pages[k].filename
        /\ (Len(items) = 5 /\ cfg.paginated /\ cfg.max_items = 2) =>
               /\ [k \in 1..Len(pages) |-> pages[k].filename]
                      = << <<"r", "s", "s", ".", "x", "m", "l">>,
                           <<"r", "s", "s", "2", ".", "x", "m", "l">>,
                           <<"r", "s", "s", "3", ".", "x", "m", "l">> >>
               /\ [k \in 1..Len(pages) |-> Len(pages[k].channel.items)]
                      = <<2, 2, 1>>

C16_Witness ==
    /\ pc = "done" /\ cfg.paginated /\ cfg.max_items = 1
    /\ Len(items) = 11 /\ Len(pages) = 11
    /\ pages[11].filename = <<"r", "s", "s", "1", "1", ".", "x", "m", "l">>

----------------------------------------------------------------------------
(* Properties of collect_articles *)

date_of(i) == articles[i].fm.date

\* the position in the walk of the entry article i was parsed from
walk_pos(i) ==
    CHOOSE k \in 1..Len(entries) :
        path_string(entries[k].comps, sep) = articles[i].path

\* C3: collect_articles returns the documents newest first, an absent date
\* being the minimum key: for positions i < j the date at i is at least
\* the date at j, and every document without a date comes after every
\* document with a date.
C3_NewestFirst ==
    pc = "done" =>
        \A i, j \in 1..Len(articles) :
            i < j =>
                /\ date_of(i) = None => date_of(j) = None
                /\ (date_of(i) # None /\ date_of(j) # None) =>
                       date_of(i)[1] >= date_of(j)[1]

C3_Witness ==
    /\ pc = "done" /\ Len(articles) = 3
    /\ date_of(1) # None /\ date_of(2) # None /\ date_of(3) = None
    /\ date_of(1)[1] > date_of(2)[1]
    /\ walk_pos(1) = 3 /\ walk_pos(3) = 1

\* C4 as claimed: documents with equal dates, and documents with absent
\* dates, keep the relative order in which the walk visited them.
C4_AsClaimed ==
    pc = "done" =>
        \A i, j \in 1..Len(articles) :
            (i < j /\ date_of(i) = date_of(j)) => walk_pos(i) < walk_pos(j)

\* C4, amended: documents with equal dates, and documents with absent
\* dates, appear in the reverse of the order in which the walk visited
\* them (the stable ascending sort keeps walk order, the reverse turns it
\* round).
C4_TiesReversed ==
    pc = "done" =>
        \A i, j \in 1..Len(articles) :
            (i < j /\ date_of(i) = date_of(j)) => walk_pos(i) > walk_pos(j)

C4_Witness ==
    /\ pc = "done" /\ Len(articles) = 3
    /\ date_of(1) # None /\ date_of(1) = date_of(2) /\ date_of(3) = None
    /\ walk_pos(1) = 3 /\ walk_pos(2) = 1

----------------------------------------------------------------------------
(* Properties of parse_markdown_file *)

\* the entry article i was parsed from
entry_of(i) == entries[walk_pos(i)]

has_delimiter(text) ==
    \E k \in 1..Len(lines(text)) : trim(lines(text)[k]) = Delim

\* the whole text of a file, newline-terminated
whole_text(text) == join(lines(text), NL) \o NL

\* C5: for a file with no bare `---` line, parse_markdown_file returns a
\* document whose body is the entire file text (newline-terminated), whose
\* title is the file's base name, whose date is the file's modification
\* time, whose author is absent and whose description is that full body.
C5_AsClaimed ==
    pc # "start" =>
        \A i \in 1..Len(articles) :
            ~has_delimiter(entry_of(i).text) =>
                /\ articles[i].content = whole_text(entry_of(i).text)
                /\ articles[i].fm.title = file_stem(entry_of(i).comps)
                /\ articles[i].fm.date = entry_of(i).mtime
                /\ articles[i].fm.author = None
                /\ articles[i].fm.description =
                       Some(whole_text(entry_of(i).text))

\* C6: every document parse_markdown_file returns has a non-empty title,
\* whether the title was parsed from the metadata block or synthesized
\* from the file's base name.
C6_AsClaimed ==
    pc # "start" =>
        \A i \in 1..Len(articles) : articles[i].fm.title # <<>>

----------------------------------------------------------------------------
(* Properties of the items build_feed makes *)

link_at(i) == items[i].link[1]

\* C7: for every document collect_articles accepts, the link of its entry
\* contains no backslash and ends in ".html".
C7_AsClaimed ==
    pc = "done" =>
        \A i \in 1..Len(items) :
            /\ ~contains_char(link_at(i), "\\")
            /\ ends_with(link_at(i), <<".", "h", "t", "m", "l">>)

\* C8: for every document whose file base name is README, in the root
\* directory or in a subdirectory, the link of its entry ends in
\* index.html.
C8_AsClaimed ==
    pc = "done" =>
        \A i \in 1..Len(items) :
            file_stem(entry_of(i).comps) = <<"R", "E", "A", "D", "M", "E">> =>
                ends_with(link_at(i),
                          <<"/", "i", "n", "d", "e", "x", ".", "h", "t", "m", "l">>)

\* C9: each item's guid equals its link and is a permalink, and no two
\* distinct source documents of a run get the same guid.
C9_AsClaimed ==
    pc = "done" =>
        /\ \A i \in 1..Len(items) :
               /\ items[i].guid # None
               /\ items[i].guid[1].value = link_at(i)
               /\ items[i].guid[1].permalink
        /\ \A i, j \in 1..Len(items) :
               i # j => items[i].guid[1].value # items[j].guid[1].value

----------------------------------------------------------------------------
(* Properties of the preview *)

body_is_empty(i) == trim(articles[i].content) = <<>>

description_of(i) == articles[i].fm.description

\* the preview made from the Markdown md; [panic, s]
preview_from(md) ==
    LET stripped == strip_leading_boilerplate(md) IN
    IF stripped.panic THEN Panicked
    ELSE LET sliced == utf8_prefix(stripped.s, PREVIEW_MD_SLICE_CHARS) IN
         IF sliced.panic THEN Panicked
         ELSE Ok(html_first_paragraphs(markdown_to_html(sliced.s),
                                       PreviewParagraphs, PreviewChars))

\* C10 as claimed: in non-full-preview mode a document whose body is empty
\* gives an empty preview and no error, whatever its front matter holds.
C10_AsClaimed ==
    (pc # "start" /\ ~cfg.full_preview /\ Len(articles) = 1
        /\ body_is_empty(1)) =>
        /\ pc = "done"
        /\ items[1].description = Some(<<>>)

\* C10, amended: in non-full-preview mode a document whose body is empty
\* gives an empty preview and no error when it has no description; when it
\* has a description the preview is made from the description, not from
\* the empty body (and the run fails if slicing the description panics).
C10_EmptyBody ==
    (pc # "start" /\ ~cfg.full_preview /\ Len(articles) = 1
        /\ body_is_empty(1)) =>
        IF description_of(1) = None
        THEN pc = "done" /\ items[1].description = Some(<<>>)
        ELSE IF preview_from(description_of(1)[1]).panic
             THEN pc = "panicked"
             ELSE /\ pc = "done"
                  /\ items[1].description =
                         Some(preview_from(description_of(1)[1]).s)

C10_Witness ==
    /\ pc = "done" /\ ~cfg.full_preview /\ Len(articles) = 1
    /\ body_is_empty(1)
    /\ description_of(1) = Some(<<"D">>)
    /\ items[1].description = Some(<<"<", "p", ">", "D", "<", "/", "p", ">">>)

\* C11: in non-full-preview mode the preview stored in an item's
\* description has at most 800 Unicode scalar values, whatever the length
\* of the body or of the description it was made from.
C11_PreviewCap ==
    (pc = "done" /\ ~cfg.full_preview) =>
        \A i \in 1..Len(items) :
            /\ items[i].description # None
            /\ Len(items[i].description[1]) <= 800

C11_Witness ==
    /\ pc = "done" /\ ~cfg.full_preview /\ Len(items) = 1
    /\ Len(trim(articles[1].content)) > 800
    /\ Len(items[1].description[1]) = 800
    /\ byte_len(items[1].description[1]) > 800

----------------------------------------------------------------------------
(* Properties of the feed files main writes *)

\* the name of the file of page i in the family stem/ext: unsuffixed for
\* page 1, suffixed by the page number from page 2 on
name_of_page(stem, i, ext) ==
    stem \o (IF i = 1 THEN <<>> ELSE page_number(i)) \o ext

\* the public URL of that file; every site URL of the runs is "u" or "u/"
url_of_page(stem, i, ext) == <<"u", "/">> \o name_of_page(stem, i, ext)

A_t_o_m == <<"a", "t", "o", "m">>

F_e_e_d == <<"f", "e", "e", "d">>

R_s_s == <<"r", "s", "s">>

X_m_l == <<".", "x", "m", "l">>

J_s_o_n == <<".", "j", "s", "o", "n">>

\* the files written so far whose names begin with stem, in order
files_of(stem) == SelectSeq(written, LAMBDA w : starts_with(w.path, stem))

\* the hrefs of the links of an Atom feed that have the given rel
hrefs(feed, rel) ==
    {feed.links[j].href :
         j \in {j \in 1..Len(feed.links) : feed.links[j].rel = rel}}

\* C12: the Atom feed written for page i of k pages carries a rel="self"
\* link to its own file URL (atom.xml for page 1, atom<i>.xml from page 2
\* on), a rel="next" link to the file of page i+1 exactly when i < k, a
\* rel="prev" link to the file of page i-1 exactly when i > 1, and its id
\* is the self URL.
C12_AsClaimed ==
    \A i \in 1..Len(files_of(A_t_o_m)) :
        /\ files_of(A_t_o_m)[i].path = name_of_page(A_t_o_m, i, X_m_l)
        /\ hrefs(files_of(A_t_o_m)[i].content.xml, "self")
               = {url_of_page(A_t_o_m, i, X_m_l)}
        /\ hrefs(files_of(A_t_o_m)[i].content.xml, "next")
               = IF i < Len(pages) THEN {url_of_page(A_t_o_m, i + 1, X_m_l)}
                 ELSE {}
        /\ hrefs(files_of(A_t_o_m)[i].content.xml, "prev")
               = IF i > 1 THEN {url_of_page(A_t_o_m, i - 1, X_m_l)} ELSE {}
        /\ files_of(A_t_o_m)[i].content.xml.id
               = url_of_page(A_t_o_m, i, X_m_l)

\* C13: the JSON Feed written for page i of k pages has a next_url,
\* pointing at the feed file of page i+1, exactly when i < k; the last page
\* has none.
C13_AsClaimed ==
    \A i \in 1..Len(files_of(F_e_e_d)) :
        /\ files_of(F_e_e_d)[i].path = name_of_page(F_e_e_d, i, J_s_o_n)
        /\ files_of(F_e_e_d)[i].content.json.next_url
               = IF i < Len(pages)
                 THEN Some(url_of_page(F_e_e_d, i + 1, J_s_o_n))
                 ELSE None

----------------------------------------------------------------------------
(* Properties of main's echo *)

normal_run == env.arg1 \notin {Some("supports"), Some("--version"), Some("-V")}

echoed == \E j \in 1..Len(stdout) : "json" \in DOMAIN stdout[j]

\* the names of the files a complete run writes, in the order RSS, JSON
\* Feed, Atom
expected_paths ==
    [i \in 1..Len(pages) |-> name_of_page(R_s_s, i, X_m_l)]
    \o (IF env.json_enabled
        THEN [i \in 1..Len(pages) |-> name_of_page(F_e_e_d, i, J_s_o_n)]
        ELSE <<>>)
    \o (IF env.atom_enabled
        THEN [i \in 1..Len(pages) |-> name_of_page(A_t_o_m, i, X_m_l)]
        ELSE <<>>)

written_paths == [j \in 1..Len(written) |-> written[j].path]

\* C15: in a normal (non-supports, non-version) run the second input
\* element is echoed to standard output unchanged, and only after
\* build_feed has returned its pages and every enabled feed file (RSS, then
\* JSON Feed, then Atom) has been written; a run that returns has echoed
\* it; when build_feed fails or a write fails the run ends in failure and
\* nothing is echoed.
C15_EchoAfterWrites ==
    normal_run =>
        /\ echoed =>
               /\ mpc = "returned"
               /\ pc = "done"
               /\ Len(pages) >= 1
               /\ written_paths = expected_paths
               /\ stdout = <<[json |-> env.stdin.elems[2]]>>
        /\ mpc = "returned" => echoed
        /\ mpc \in {"exit1", "panicked"} => stdout = <<>>
        /\ pc = "panicked" => mpc = "panicked"

C15_Witness ==
    /\ normal_run /\ mpc = "returned"
    /\ env.json_enabled /\ env.atom_enabled
    /\ Len(pages) = 2 /\ Len(written) = 6
    /\ stdout = <<[json |-> [sections |-> <<"chapter">>]]>>

----------------------------------------------------------------------------
(* Properties of the converters *)

\* the id the claim gives an item: the guid's value, else the link, else
\* the title, else the empty string
id_by_precedence(item) ==
    CASE item.guid # None -> item.guid[1].value
      [] item.guid = None /\ item.link # None -> item.link[1]
      [] item.guid = None /\ item.link = None /\ item.title # None ->
             item.title[1]
      [] OTHER -> <<>>

\* C14: rss_to_json_feed and rss_to_atom map the items of a channel, also
\* of one without items, one-to-one and in order: output item k has as id
\* the guid value of input item k, else its link, else its title, else the
\* empty string, and has the input item's title (an Atom entry made from an
\* item without title has the empty title); both converters choose the
\* same id for the same item.
C14_Converters ==
    (arg.fn = "converters" /\ pc = "done") =>
        /\ Len(ret.json[1].items) = Len(arg.channel.items)
        /\ Len(ret.atom[1].entries) = Len(arg.channel.items)
        /\ \A k \in 1..Len(arg.channel.items) :
               /\ ret.json[1].items[k].id
                      = id_by_precedence(arg.channel.items[k])
               /\ ret.atom[1].entries[k].id
                      = id_by_precedence(arg.channel.items[k])
               /\ ret.json[1].items[k].id = ret.atom[1].entries[k].id
               /\ ret.json[1].items[k].title = arg.channel.items[k].title
               /\ ret.atom[1].entries[k].title
                      = IF arg.channel.items[k].title = None THEN <<>>
                        ELSE arg.channel.items[k].title[1]

C14_Witness ==
    /\ arg.fn = "converters" /\ pc = "done"
    /\ Len(arg.channel.items) = 2
    /\ arg.channel.items[1].guid # None /\ arg.channel.items[1].link # None
    /\ arg.channel.items[2].guid = None /\ arg.channel.items[2].link = None
    /\ arg.channel.items[2].title # None
    /\ ret.json[1].items[1].id = <<"g">>
    /\ ret.atom[1].entries[2].id = <<"t">>

----------------------------------------------------------------------------
(* Properties of utf8_prefix, strip_leading_boilerplate and                *)
(* html_first_paragraphs                                                   *)

\* C17: utf8_prefix(s, max_chars) never fails and, for every string s
\* (also one with multi-byte characters that is shorter than max_chars)
\* and every max_chars > 0, returns the first min(max_chars, number of
\* characters of s) characters of s.
C17_AsClaimed ==
    (arg.fn = "utf8_prefix" /\ pc # "start" /\ arg.max_chars > 0) =>
        /\ pc = "done"
        /\ ret.s = SubSeq(arg.s, 1, Min(arg.max_chars, Len(arg.s)))

\* the positions of md at which a line starts
line_starts(md) ==
    {i \in 1..Len(md) : i = 1 \/ md[i - 1] = "\n"}

\* the position of the last character of the line that starts at st, its
\* line ending included
line_last(md, st) ==
    IF \E i \in st..Len(md) : md[i] = "\n"
    THEN CHOOSE i \in st..Len(md) :
             md[i] = "\n" /\ \A j \in st..(i - 1) : md[j] # "\n"
    ELSE Len(md)

\* the text of the line that starts at st, without its line ending
line_text(md, st) ==
    LET e == line_last(md, st) IN
    IF md[e] # "\n" THEN SubSeq(md, st, e)
    ELSE IF e - 1 >= st /\ md[e - 1] = "\r" THEN SubSeq(md, st, e - 2)
    ELSE SubSeq(md, st, e - 1)

\* a heading line: its first character that is no white space is '#'
heading_starts(md) ==
    {st \in line_starts(md) : starts_with(trim_start(line_text(md, st)), <<"#">>)}

\* the blank lines after the first heading line
blank_after_heading(md) ==
    {st \in line_starts(md) :
         /\ trim(line_text(md, st)) = <<>>
         /\ \E h \in heading_starts(md) : h < st}

\* what the claim says strip_leading_boilerplate(md) is
text_after_boilerplate(md) ==
    IF blank_after_heading(md) = {} THEN md
    ELSE LET b == CHOOSE st \in blank_after_heading(md) :
                      \A o \in blank_after_heading(md) : st <= o
         IN SubSeq(md, line_last(md, b) + 1, Len(md))

\* C18: if md has a heading line and a blank line somewhere after it,
\* strip_leading_boilerplate(md) is exactly the text of md that follows the
\* first such blank line; if md has no heading line, or no blank line after
\* the first heading, it is md unchanged; the result is always a suffix of
\* md.
C18_AsClaimed ==
    (arg.fn = "strip_leading_boilerplate" /\ pc # "start") =>
        /\ pc = "done"
        /\ ret.s = text_after_boilerplate(arg.md)
        /\ ends_with(arg.md, ret.s)

P_tag == <<"<", "p", ">">>

\* the paragraph elements of html, in document order: each from a "<p>" to
\* the next "</p>"
RECURSIVE paragraph_elements(_, _)
paragraph_elements(html, from) ==
    IF find(html, from, P_tag) = 0
       \/ find(html, find(html, from, P_tag), P_close) = 0
    THEN <<>>
    ELSE <<SubSeq(html, find(html, from, P_tag),
                  find(html, find(html, from, P_tag), P_close) + 3)>>
         \o paragraph_elements(
                html, find(html, find(html, from, P_tag), P_close) + 4)

\* C19: html_first_paragraphs(html, 3, 800), before the final character
\* cap, is exactly the first min(3, k) paragraph elements of html
\* concatenated in document order, k being the number of paragraph
\* elements of html, with nothing that is outside a paragraph element (no
\* heading, list or preformatted block); when k = 0 it is the whole html.
C19_AsClaimed ==
    (arg.fn = "html_first_paragraphs" /\ pc = "done") =>
        ret = IF paragraph_elements(arg.html, 1) = <<>> THEN arg.html
              ELSE concat(SubSeq(paragraph_elements(arg.html, 1), 1,
                                 Min(3, Len(paragraph_elements(arg.html, 1)))))

====
